---- MODULE Spec2Model ----
(***************************************************************************)
(* ColorReducer (src/src/color_reducer.py): the facade aggregate_colors,   *)
(* the median-cut quantizer (_median_cut_quantize, _split_into_buckets,    *)
(* _median_cut_quantize_helper) and the k-means adapter.                   *)
(*                                                                         *)
(* One ColorReducer object is modelled.  self.image is loaded once by      *)
(* __init__; aggregate_colors may then be called any number of times.      *)
(* The recursion of _split_into_buckets is unfolded into steps: the        *)
(* variable stack holds the calls of _split_into_buckets that are still to *)
(* be executed, the next one to run first.  A step runs one call up to its *)
(* two recursive calls, which it puts in its own place.                    *)
(*                                                                         *)
(* Pixels: plt.imread gives uint8 arrays for JPEG files and float32 arrays *)
(* for PNG files.  For uint8 the flattened record array is int64, a mean   *)
(* is a float64 and the store into the uint8 copy truncates it.  For       *)
(* float32 the record array is float64, so the row index data[3] is a      *)
(* float and the store img[data[3]] raises IndexError.                     *)
(*                                                                         *)
(* Sorting: ndarray.argsort() with no kind is numpy's introsort, which is  *)
(* a fixed algorithm (the same input gives the same permutation) but is    *)
(* not stable: the order it leaves equal keys in depends on the numpy      *)
(* build (insertion sort below 17 elements, partitioning above, vectorised *)
(* networks on AVX-512 builds).  argsort_ties is that property of the      *)
(* build, fixed for the lifetime of the process.                           *)
(***************************************************************************)
EXTENDS Integers, Sequences, FiniteSets, TLC

\* ---------------------------------------------------------------- bounds
\* The largest number of pixels H*W of an image.
MaxPixels == 3
\* The largest number of rows H of an image.
MaxRows == 2
\* The largest red value of an input pixel.
MaxVal == 1
\* The largest n_colors passed to aggregate_colors.
MaxColors == 4

VARIABLES
    shape,          \* self.image.shape[:2], <<H, W>>
    image,          \* self.image: [Coords -> <<r, g, b>>]
    dtype,          \* self.image.dtype: "uint8" or "float32"
    argsort_ties,   \* how this numpy build orders equal keys in argsort()
    pc,             \* "idle", "running" (inside _split_into_buckets), "done", "raised"
    method,         \* the method argument of the current (or last) call
    n_colors,       \* the n_colors argument of the current (or last) call
    depth0,         \* n_color_param: the depth passed to _median_cut_quantize
    quantizer,      \* the private method aggregate_colors dispatched to
    sample_img,     \* the local sample_img of _median_cut_quantize, while it runs
    stack,          \* pending calls of _split_into_buckets, next first
    result,         \* the value the call returned
    error,          \* the exception the call raised
    prev,           \* what the call before returned, if it was a completed
                    \* median-cut call with the arguments of this one
    writes,         \* per coordinate, how many stores the current call made to it
    leaves,         \* the buckets the current call has averaged and written
    lastSplit,      \* the last sort-and-split the current call made
    nsplits,        \* how many buckets the current call has split
    reordered       \* whether the current call ran a pending call ahead of an earlier one

vars == <<shape, image, dtype, argsort_ties, pc, method, n_colors, depth0,
          quantizer, sample_img, stack, result, error, prev, writes, leaves,
          lastSplit, nsplits, reordered>>

\* --------------------------------------------------------------- values
None == <<>>
Some(x) == <<x>>

\* Channel index k of the code (0, 1, 2) is position k + 1 of a pixel or record.
Channels == {0, 1, 2}

\* Input colours: black, red of every value up to MaxVal, green 1 and blue 1.
Palette == {<<v, 0, 0>> : v \in 0..MaxVal} \cup {<<0, 1, 0>>, <<0, 0, 1>>}

Shapes == {s \in (0..MaxRows) \X (0..MaxPixels) : s[1] * s[2] <= MaxPixels}

Coords(s) == (0..(s[1] - 1)) \X (0..(s[2] - 1))

Methods == {"kmeans", "median_cut", "cluster"}

NColors == (0 - 1)..MaxColors

Pow2(e) == 2 ^ e

\* Faulty variant of DepthConversionFails: 0 is let through.
DepthConversionFailsBelowZero(n) == n < 0

\* Whether int(np.log2(n)) raises, for an integer n.
DepthConversionFails(n) == n < 1

\* Faulty variant of Log2Floor: the logarithm rounded up.
RECURSIVE Log2Ceil(_)
Log2Ceil(n) == IF n <= 1 THEN 0 ELSE 1 + Log2Ceil((n + 1) \div 2)

\* int(np.log2(n)) for an integer n >= 1.
RECURSIVE Log2Floor(_)
Log2Floor(n) == IF n <= 1 THEN 0 ELSE 1 + Log2Floor(n \div 2)

\* The exception of int(np.log2(n)) for an integer n < 1: log2(0) is -inf and
\* int(-inf) raises OverflowError; log2 of a negative is nan and int(nan) raises
\* ValueError.
DepthError(n) ==
    IF n = 0
    THEN [type |-> "OverflowError", msg |-> "cannot convert float infinity to integer"]
    ELSE [type |-> "ValueError", msg |-> "cannot convert float NaN to integer"]

InvalidMethodError ==
    [type |-> "ValueError",
     msg |-> "Invalid method. Available methods: 'kmeans', 'median_cut'"]

NoError == [type |-> "none", msg |-> ""]

\* Faulty variant of Dispatch: "cluster" is taken as a name of k-means.
DispatchWithAlias(m) ==
    CASE m \in {"kmeans", "cluster"} -> "_kmeans_clustering"
      [] m = "median_cut" -> "_median_cut_quantize"
      [] OTHER -> "raise"

\* The branch of aggregate_colors taken for a method name.
Dispatch(m) ==
    CASE m = "kmeans" -> "_kmeans_clustering"
      [] m = "median_cut" -> "_median_cut_quantize"
      [] OTHER -> "raise"

\* ----------------------------------------------------- _median_cut_quantize
\* flattened_img_array: one record [r, g, b, rindex, cindex] per pixel, rows
\* first, columns within a row.
Flatten(img, s) ==
    [i \in 1..(s[1] * s[2]) |->
        LET rindex == (i - 1) \div s[2]
            cindex == (i - 1) % s[2]
            color == img[<<rindex, cindex>>]
        IN <<color[1], color[2], color[3], rindex, cindex>>]

Coord(data) == <<data[4], data[5]>>

CoordsOf(img_arr) == {Coord(img_arr[i]) : i \in 1..Len(img_arr)}

Column(img_arr, k) == {img_arr[i][k + 1] : i \in 1..Len(img_arr)}

Max(S) == CHOOSE x \in S : \A y \in S : y <= x
Min(S) == CHOOSE x \in S : \A y \in S : x <= y

\* np.max(img_arr[:, k]) - np.min(img_arr[:, k])
ColorRange(img_arr, k) == Max(Column(img_arr, k)) - Min(Column(img_arr, k))

\* Faulty variant of ArgMax: the last index holding the maximum.
ArgMaxLast(ranges) ==
    CHOOSE k \in Channels :
        /\ \A j \in Channels : ranges[j + 1] <= ranges[k + 1]
        /\ \A j \in Channels : j > k => ranges[j + 1] < ranges[k + 1]

\* np.argmax: the first index holding the maximum.
ArgMax(ranges) ==
    CHOOSE k \in Channels :
        /\ \A j \in Channels : ranges[j + 1] <= ranges[k + 1]
        /\ \A j \in Channels : j < k => ranges[j + 1] < ranges[k + 1]

SpaceWithHighestRange(img_arr) ==
    ArgMax(<<ColorRange(img_arr, 0), ColorRange(img_arr, 1), ColorRange(img_arr, 2)>>)

\* img_arr[:, k].argsort(): position p of the result holds the index of the
\* record that comes p-th by its value on channel k; equal values come in the
\* order this build leaves them in.
ArgSort(img_arr, k, ties) ==
    LET n == Len(img_arr)
        Before(i, j) ==
            \/ img_arr[i][k + 1] < img_arr[j][k + 1]
            \/ /\ img_arr[i][k + 1] = img_arr[j][k + 1]
               /\ IF ties = "stable" THEN i < j ELSE i > j
        rank(i) == Cardinality({j \in 1..n : Before(j, i)}) + 1
    IN [p \in 1..n |-> CHOOSE i \in 1..n : rank(i) = p]

\* img_arr[img_arr[:, k].argsort()]
SortByChannel(img_arr, k, ties) ==
    LET order == ArgSort(img_arr, k, ties)
    IN [p \in 1..Len(img_arr) |-> img_arr[order[p]]]

\* Faulty variant of MedianIndex: the half rounded up.
MedianIndexUp(img_arr) == (Len(img_arr) + 1) \div 2

\* len(img_arr) // 2
MedianIndex(img_arr) == Len(img_arr) \div 2

\* img_arr[:median_index]
FirstBucket(sorted, median_index) == SubSeq(sorted, 1, median_index)

\* Faulty variant of SecondBucket: img_arr[median_index - 1:], the last record
\* of the first bucket is in the second too.
SecondBucketOverlapping(sorted, median_index) ==
    SubSeq(sorted, IF median_index > 0 THEN median_index ELSE 1, Len(sorted))

\* Faulty variant of SecondBucket: img_arr[median_index + 1:], the median
\* record is in neither bucket.
SecondBucketSkipping(sorted, median_index) ==
    SubSeq(sorted, median_index + 2, Len(sorted))

\* img_arr[median_index:]
SecondBucket(sorted, median_index) ==
    SubSeq(sorted, median_index + 1, Len(sorted))

\* Faulty variant of IsBaseCase: the recursion goes one level deeper.
IsBaseCaseLate(depth) == depth < 0

\* The base case test of _split_into_buckets: depth == 0.
IsBaseCase(depth) == depth = 0

RECURSIVE SumColumn(_, _, _)
SumColumn(img_arr, k, n) ==
    IF n = 0 THEN 0 ELSE img_arr[n][k + 1] + SumColumn(img_arr, k, n - 1)

\* Faulty variant of Mean: one too many.
MeanOffByOne(img_arr, k) ==
    [num |-> SumColumn(img_arr, k, Len(img_arr)) + Len(img_arr), den |-> Len(img_arr)]

\* np.mean(img_arr[:, k]), a float64, kept exact as numerator and denominator.
Mean(img_arr, k) ==
    [num |-> SumColumn(img_arr, k, Len(img_arr)), den |-> Len(img_arr)]

\* The store of a float64 into a uint8 array truncates it.
AsUint8(avg) == avg.num \div avg.den

\* [r_average, g_average, b_average] as stored in the uint8 image.
AverageColor(img_arr) ==
    <<AsUint8(Mean(img_arr, 0)), AsUint8(Mean(img_arr, 1)), AsUint8(Mean(img_arr, 2))>>

\* The loop of _median_cut_quantize_helper: every record's pixel gets the average.
WriteBucket(img, img_arr) ==
    [c \in DOMAIN img |-> IF c \in CoordsOf(img_arr) THEN AverageColor(img_arr) ELSE img[c]]

\* Faulty variant of SelfImage: sample_img = self.image without .copy(), so
\* that a store into sample_img is a store into self.image.
SelfImageAliased(self_image, img) == img

\* self.image after a store that leaves sample_img as img: sample_img is
\* self.image.copy(), so the store does not reach self.image.
SelfImage(self_image, img) == self_image

Frame(img_arr, depth, level) == [img_arr |-> img_arr, depth |-> depth, level |-> level]

\* stack with its i-th call replaced by the calls in `calls`.
Replace(stk, i, calls) == SubSeq(stk, 1, i - 1) \o calls \o SubSeq(stk, i + 1, Len(stk))

\* ------------------------------------------- the recursion as one function
\* The buckets that _split_into_buckets(img, img_arr, depth) hands to
\* _median_cut_quantize_helper, in the order it does: first bucket's, then
\* second bucket's.
RECURSIVE LeafBuckets(_, _, _)
LeafBuckets(img_arr, depth, ties) ==
    IF Len(img_arr) = 0 THEN <<>>
    ELSE IF IsBaseCase(depth) THEN <<img_arr>>
    ELSE LET sorted == SortByChannel(img_arr, SpaceWithHighestRange(img_arr), ties)
             median_index == MedianIndex(img_arr)
         IN LeafBuckets(FirstBucket(sorted, median_index), depth - 1, ties)
            \o LeafBuckets(SecondBucket(sorted, median_index), depth - 1, ties)

RECURSIVE WriteBuckets(_, _)
WriteBuckets(img, buckets) ==
    IF buckets = <<>> THEN img
    ELSE WriteBuckets(WriteBucket(img, Head(buckets)), Tail(buckets))

\* _median_cut_quantize(depth) on a uint8 image, run to its end.
MedianCutQuantize(img, s, depth, ties) ==
    WriteBuckets(img, LeafBuckets(Flatten(img, s), depth, ties))

\* ------------------------------------------------------- _kmeans_clustering
\* sklearn's KMeans is outside the repository.  What is kept of it: fit raises
\* ValueError unless 1 <= n_clusters <= number of samples, and otherwise the
\* method returns an image built from the labels and centers KMeans gives.  The
\* pixels of that image are not modelled.
KMeansError == [type |-> "ValueError", msg |-> "n_clusters"]

KMeansFails(s, n) == n < 1 \/ n > s[1] * s[2]

ClusteredImage == "clustered_image"

\* ----------------------------------------------------------------- Init
Init ==
    /\ shape \in Shapes
    /\ image \in [Coords(shape) -> Palette]
    /\ dtype \in {"uint8", "float32"}
    /\ argsort_ties \in {"stable", "reversed"}
    /\ pc = "idle"
    /\ method = "none"
    /\ n_colors = 0
    /\ depth0 = 0
    /\ quantizer = "none"
    /\ sample_img = None
    /\ stack = <<>>
    /\ result = None
    /\ error = NoError
    /\ prev = None
    /\ writes = [c \in Coords(shape) |-> 0]
    /\ leaves = {}
    /\ lastSplit = None
    /\ nsplits = 0
    /\ reordered = FALSE

\* -------------------------------------------------------------- actions
\* aggregate_colors(method, n_colors), up to the first call of
\* _split_into_buckets for median_cut and to its end otherwise.
AggregateColors(m, n) ==
    /\ pc # "running"
    /\ method' = m
    /\ n_colors' = n
    /\ prev' = IF pc = "done" /\ quantizer = "_median_cut_quantize"
                  /\ m = method /\ n = n_colors
               THEN result
               ELSE None
    /\ writes' = [c \in Coords(shape) |-> 0]
    /\ leaves' = {}
    /\ lastSplit' = None
    /\ nsplits' = 0
    /\ reordered' = FALSE
    /\ UNCHANGED <<shape, image, dtype, argsort_ties>>
    /\ CASE Dispatch(m) = "_kmeans_clustering" ->
              /\ quantizer' = "_kmeans_clustering"
              /\ depth0' = 0
              /\ sample_img' = None
              /\ stack' = <<>>
              /\ IF KMeansFails(shape, n)
                 THEN /\ pc' = "raised"
                      /\ error' = KMeansError
                      /\ result' = None
                 ELSE /\ pc' = "done"
                      /\ error' = NoError
                      /\ result' = Some(ClusteredImage)
         [] Dispatch(m) = "_median_cut_quantize" ->
              IF DepthConversionFails(n)
              THEN /\ pc' = "raised"
                   /\ error' = DepthError(n)
                   /\ quantizer' = "none"
                   /\ depth0' = 0
                   /\ sample_img' = None
                   /\ stack' = <<>>
                   /\ result' = None
              ELSE /\ pc' = "running"
                   /\ error' = NoError
                   /\ quantizer' = "_median_cut_quantize"
                   /\ depth0' = Log2Floor(n)
                   /\ sample_img' = Some(image)
                   /\ stack' = <<Frame(Flatten(image, shape), Log2Floor(n), 1)>>
                   /\ result' = None
         [] OTHER ->
              /\ pc' = "raised"
              /\ error' = InvalidMethodError
              /\ quantizer' = "none"
              /\ depth0' = 0
              /\ sample_img' = None
              /\ stack' = <<>>
              /\ result' = None

\* One call _split_into_buckets(img, img_arr, depth): the i-th pending call.
SplitIntoBuckets(i) ==
    /\ pc = "running"
    /\ i \in 1..Len(stack)
    /\ LET img_arr == stack[i].img_arr
           depth == stack[i].depth
           level == stack[i].level
       IN IF Len(img_arr) = 0
          THEN \* return
               /\ stack' = Replace(stack, i, <<>>)
               /\ UNCHANGED <<image, pc, sample_img, error, writes, leaves,
                              lastSplit, nsplits>>
          ELSE IF IsBaseCase(depth)
          THEN \* _median_cut_quantize_helper(img, img_arr)
               IF dtype = "uint8"
               THEN /\ sample_img' = Some(WriteBucket(sample_img[1], img_arr))
                    /\ image' = SelfImage(image, WriteBucket(sample_img[1], img_arr))
                    /\ writes' = [c \in Coords(shape) |->
                                    IF c \in CoordsOf(img_arr) THEN writes[c] + 1
                                    ELSE writes[c]]
                    /\ leaves' = leaves \cup {img_arr}
                    /\ stack' = Replace(stack, i, <<>>)
                    /\ UNCHANGED <<pc, error, lastSplit, nsplits>>
               ELSE \* img[data[3]] with a float64 index
                    /\ pc' = "raised"
                    /\ error' = [type |-> "IndexError", msg |-> "only integers"]
                    /\ sample_img' = None
                    /\ stack' = <<>>
                    /\ UNCHANGED <<image, writes, leaves, lastSplit, nsplits>>
          ELSE \* the three locals of the recursive case, each computed once
               \E space_with_highest_range \in {SpaceWithHighestRange(img_arr)} :
               \E sorted \in {SortByChannel(img_arr, space_with_highest_range, argsort_ties)} :
               \E median_index \in {MedianIndex(img_arr)} :
                  /\ stack' = Replace(stack, i,
                        <<Frame(FirstBucket(sorted, median_index), depth - 1, level + 1),
                          Frame(SecondBucket(sorted, median_index), depth - 1, level + 1)>>)
                  /\ lastSplit' = Some([img_arr |-> img_arr,
                                        depth |-> depth,
                                        channel |-> space_with_highest_range,
                                        sorted |-> sorted,
                                        median_index |-> median_index,
                                        first |-> FirstBucket(sorted, median_index),
                                        second |-> SecondBucket(sorted, median_index)])
                  /\ nsplits' = nsplits + 1
                  /\ UNCHANGED <<image, pc, sample_img, error, writes, leaves>>
    /\ reordered' = (reordered \/ i > 1)
    /\ UNCHANGED <<shape, dtype, argsort_ties, method, n_colors, depth0, quantizer,
                   result, prev>>

\* The code runs the pending calls in order: first bucket, then second.
SplitNext == SplitIntoBuckets(1)

\* Fork-join: any pending call may run next.
SplitAny == \E i \in 1..Len(stack) : SplitIntoBuckets(i)

\* return sample_img
MedianCutReturn ==
    /\ pc = "running"
    /\ stack = <<>>
    /\ pc' = "done"
    /\ result' = sample_img
    /\ sample_img' = None
    /\ UNCHANGED <<shape, image, dtype, argsort_ties, method, n_colors, depth0,
                   quantizer, stack, error, prev, writes, leaves, lastSplit, nsplits,
                   reordered>>

Call == \E m \in Methods, n \in NColors : AggregateColors(m, n)

Next == Call \/ SplitNext \/ MedianCutReturn

Spec == Init /\ [][Next]_vars

\* The interpreter runs a call that has been entered to its end: a pending
\* call of _split_into_buckets is executed, and _median_cut_quantize returns
\* once none is pending.  Whether aggregate_colors is called again is up to
\* the caller.
SpecRunToEnd == Spec /\ WF_vars(SplitNext) /\ WF_vars(MedianCutReturn)

NextForkJoin == Call \/ SplitAny \/ MedianCutReturn

SpecForkJoin == Init /\ [][NextForkJoin]_vars

\* ------------------------------------------------------------ properties
MedianCutDone == pc = "done" /\ quantizer = "_median_cut_quantize"

NumPixels == shape[1] * shape[2]

DistinctColors(img) == {img[c] : c \in DOMAIN img}

Color(data) == <<data[1], data[2], data[3]>>

IsConstant(img_arr) == \A i, j \in 1..Len(img_arr) : Color(img_arr[i]) = Color(img_arr[j])

\* The places of the live buckets (the pending calls' and the written ones)
\* that hold coordinate c: a pending call or a written bucket, and an index in it.
Occurrences(c) ==
    {<<"pending", i, k>> : <<i, k>> \in
        {x \in (1..Len(stack)) \X (1..NumPixels) :
            x[2] <= Len(stack[x[1]].img_arr) /\ Coord(stack[x[1]].img_arr[x[2]]) = c}}
    \cup
    {<<"written", b, k>> : <<b, k>> \in
        {x \in leaves \X (1..NumPixels) : x[2] <= Len(x[1]) /\ Coord(x[1][x[2]]) = c}}

RECURSIVE TotalSize(_)
TotalSize(buckets) ==
    IF buckets = <<>> THEN 0 ELSE Len(Head(buckets)) + TotalSize(Tail(buckets))

RECURSIVE TotalSizeOfSet(_)
TotalSizeOfSet(buckets) ==
    IF buckets = {} THEN 0
    ELSE LET b == CHOOSE x \in buckets : TRUE
         IN Len(b) + TotalSizeOfSet(buckets \ {b})

\* C1: when _median_cut_quantize(d) has returned, the returned image holds at
\* most 2^d distinct colours.
C1_ColorCountBound ==
    MedianCutDone => Cardinality(DistinctColors(result[1])) <= Pow2(depth0)

C1_Witness ==
    /\ MedianCutDone
    /\ depth0 = 1
    /\ Cardinality(DistinctColors(image)) = 3
    /\ Cardinality(DistinctColors(result[1])) = 2

\* C2: while a median-cut call runs and when it has returned, the live buckets
\* partition the pixel records: their sizes add up to H*W and every coordinate
\* is in exactly one of them, once.
C2_Partition ==
    (pc = "running" \/ MedianCutDone) =>
        /\ TotalSize([i \in 1..Len(stack) |-> stack[i].img_arr]) + TotalSizeOfSet(leaves)
             = NumPixels
        /\ \A c \in Coords(shape) : Cardinality(Occurrences(c)) = 1

C2_Witness ==
    /\ pc = "running"
    /\ nsplits >= 2
    /\ Cardinality(leaves) >= 1
    /\ Len(stack) >= 2
    /\ \A i \in 1..Len(stack) : Len(stack[i].img_arr) >= 1
    /\ C2_Partition

\* C3 as stated: median-cut at depth d applied to its own output gives that
\* output again, for every image and every depth.  Stated for the builds whose
\* argsort keeps equal keys in order, so that a violation owes nothing to the
\* order of equal keys.
C3_Idempotent ==
    (MedianCutDone /\ argsort_ties = "stable") =>
        MedianCutQuantize(result[1], shape, depth0, argsort_ties) = result[1]

\* C3 as amended: the second run leaves the image unchanged whenever each of
\* its buckets is internally constant, which is so at depth 0 and when
\* 2^d >= H*W (every bucket is a single pixel).
C3_IdempotentWhenConstantBuckets ==
    MedianCutDone =>
        LET out == result[1]
            second == LeafBuckets(Flatten(out, shape), depth0, argsort_ties)
            constant == \A b \in 1..Len(second) : IsConstant(second[b])
        IN /\ constant => WriteBuckets(out, second) = out
           /\ (depth0 = 0 \/ Pow2(depth0) >= NumPixels) => constant

C3_Witness ==
    /\ MedianCutDone
    /\ depth0 = 1
    /\ result[1] # image
    /\ LET second == LeafBuckets(Flatten(result[1], shape), depth0, argsort_ties)
       IN /\ Len(second) = 2
          /\ \A b \in 1..Len(second) : IsConstant(second[b])
          /\ WriteBuckets(result[1], second) = result[1]

\* C4 as stated: the depth is floor(log2(n_colors)) and the number of distinct
\* colours of the output is a power of two.  Stated for non-empty images and
\* the builds whose argsort keeps equal keys in order.
C4_PowerOfTwoColors ==
    (MedianCutDone /\ NumPixels > 0 /\ argsort_ties = "stable") =>
        /\ Pow2(depth0) <= n_colors /\ n_colors < Pow2(depth0 + 1)
        /\ \E e \in 0..depth0 : Cardinality(DistinctColors(result[1])) = Pow2(e)

\* C4 as amended: the depth is floor(log2(n_colors)) and the number of distinct
\* colours of the output is at most 2^depth, hence at most n_colors.
C4_DepthAndColorCount ==
    MedianCutDone =>
        /\ Pow2(depth0) <= n_colors /\ n_colors < Pow2(depth0 + 1)
        /\ Cardinality(DistinctColors(result[1])) <= Pow2(depth0)
        /\ Cardinality(DistinctColors(result[1])) <= n_colors

C4_Witness ==
    /\ MedianCutDone
    /\ n_colors = 3
    /\ depth0 = 1
    /\ Cardinality(DistinctColors(image)) = 3
    /\ Cardinality(DistinctColors(result[1])) = 2

TieAcrossMedian ==
    /\ lastSplit # None
    /\ LET sp == lastSplit[1]
       IN \E i, j \in 1..Len(sp.sorted) :
            /\ i <= sp.median_index /\ sp.median_index < j
            /\ sp.sorted[i][sp.channel + 1] = sp.sorted[j][sp.channel + 1]
            /\ Color(sp.sorted[i]) # Color(sp.sorted[j])

C6_InputNotMutated ==
    [][/\ image' = image
       /\ shape' = shape
       /\ (pc' = "done" /\ quantizer' = "_median_cut_quantize")
            => DOMAIN result'[1] = DOMAIN image']_vars

C6_Witness ==
    /\ MedianCutDone
    /\ prev # None
    /\ prev[1] # image
    /\ result[1] # image
    /\ DOMAIN result[1] = Coords(shape)
    /\ NumPixels = 3

\* C7: whatever the order in which the pending buckets are processed, no
\* coordinate is stored to twice, pending buckets hold disjoint coordinates,
\* every coordinate has been stored to exactly once when the call returns, and
\* the returned image is the one the first-then-second order gives.
C7_OrderIndependent ==
    /\ \A c \in Coords(shape) : writes[c] <= 1
    /\ \A i, j \in 1..Len(stack) :
         i # j => CoordsOf(stack[i].img_arr) \cap CoordsOf(stack[j].img_arr) = {}
    /\ MedianCutDone =>
         /\ \A c \in Coords(shape) : writes[c] = 1
         /\ result[1] = MedianCutQuantize(image, shape, depth0, argsort_ties)

C7_Witness ==
    /\ MedianCutDone
    /\ reordered
    /\ Cardinality(leaves) >= 2
    /\ result[1] # image
    /\ result[1] = MedianCutQuantize(image, shape, depth0, argsort_ties)

\* C8 as stated: a median-cut call with n_colors < 1 raises
\* InvalidArgumentError before any bucket is split or any pixel written.
C8_InvalidArgumentError ==
    (method = "median_cut" /\ n_colors < 1) =>
        /\ pc = "raised"
        /\ error.type = "InvalidArgumentError"
        /\ nsplits = 0
        /\ \A c \in Coords(shape) : writes[c] = 0

\* C8 as amended: a median-cut call with an integer n_colors < 1 raises
\* OverflowError (n_colors = 0) or ValueError (n_colors < 0) from the depth
\* conversion, before _median_cut_quantize is entered: no output buffer
\* exists, no bucket is split, no pixel is written, nothing is returned.
C8_RaisesBeforeAnyWork ==
    (method = "median_cut" /\ n_colors < 1) =>
        /\ pc = "raised"
        /\ error.type = (IF n_colors = 0 THEN "OverflowError" ELSE "ValueError")
        /\ quantizer = "none"
        /\ sample_img = None
        /\ stack = <<>>
        /\ result = None
        /\ nsplits = 0
        /\ \A c \in Coords(shape) : writes[c] = 0

C8_Witness ==
    /\ method = "median_cut"
    /\ n_colors = 0
    /\ pc = "raised"
    /\ error.type = "OverflowError"
    /\ NumPixels = 3

\* C9 as stated: the accepted method names are "median_cut" and "cluster";
\* "cluster" runs the cluster quantizer and every other name raises.
C9_AcceptsClusterName ==
    /\ method = "cluster" => quantizer = "_kmeans_clustering"
    /\ method = "median_cut" /\ n_colors >= 1 => quantizer = "_median_cut_quantize"
    /\ method \in Methods \ {"median_cut", "cluster"} =>
         pc = "raised" /\ quantizer = "none"

\* C9 as amended: the accepted method names are "kmeans" and "median_cut";
\* "kmeans" runs _kmeans_clustering, "median_cut" runs _median_cut_quantize
\* (once the depth conversion succeeds), and every other name, "cluster"
\* included, raises ValueError with a message naming 'kmeans' and 'median_cut',
\* with no quantization performed.
C9_DispatchByName ==
    /\ method = "kmeans" => quantizer = "_kmeans_clustering"
    /\ method = "median_cut" /\ n_colors >= 1 => quantizer = "_median_cut_quantize"
    /\ method \in Methods \ {"kmeans", "median_cut"} =>
         /\ pc = "raised"
         /\ error.type = "ValueError"
         /\ error.msg = "Invalid method. Available methods: 'kmeans', 'median_cut'"
         /\ quantizer = "none"
         /\ sample_img = None
         /\ result = None
         /\ nsplits = 0
         /\ \A c \in Coords(shape) : writes[c] = 0

C9_Witness ==
    /\ method = "cluster"
    /\ pc = "raised"
    /\ error = InvalidMethodError
    /\ NumPixels = 3

\* The index in img_arr of a record of it (records differ in their coordinate).
IndexIn(img_arr, data) == CHOOSE i \in 1..Len(img_arr) : img_arr[i] = data

\* C10: a split sorts stably: two records equal on the channel sorted by are
\* in the sorted bucket in the order they had in the unsorted one.
C10_StableSort ==
    lastSplit # None =>
        LET sp == lastSplit[1]
        IN \A i, j \in 1..Len(sp.sorted) :
             (i < j /\ sp.sorted[i][sp.channel + 1] = sp.sorted[j][sp.channel + 1])
                => IndexIn(sp.img_arr, sp.sorted[i]) < IndexIn(sp.img_arr, sp.sorted[j])

\* The image the current median-cut call has written so far, or has returned.
Output == IF pc = "done" THEN result[1] ELSE sample_img[1]

\* Whether the value v is exactly the arithmetic mean of channel k of img_arr.
IsExactMean(v, img_arr, k) ==
    v * Len(img_arr) = SumColumn(img_arr, k, Len(img_arr))

\* Whether the pixel at every coordinate recorded in img_arr is the per-channel
\* arithmetic mean of img_arr.
HoldsMeanOf(img, img_arr) ==
    \A c \in CoordsOf(img_arr) : \A k \in Channels : IsExactMean(img[c][k + 1], img_arr, k)

\* C11, what it says of the writes: the write of a non-empty bucket at depth 0
\* succeeds and puts the per-channel arithmetic mean of the bucket's records at
\* exactly the coordinates recorded in it; an empty bucket writes nothing; and
\* with n_colors = 1 every pixel of the output is the per-channel mean of the
\* whole input.  (That a bucket of size 1 is not split is left out of the
\* formula: it has no effect on what is written.)
C11_LeafWritesMean ==
    /\ ~(pc = "raised" /\ method = "median_cut" /\ n_colors >= 1)
    /\ (pc = "running" \/ MedianCutDone) =>
          /\ \A b \in leaves : Len(b) > 0 /\ HoldsMeanOf(Output, b)
          /\ \A c \in Coords(shape) :
                writes[c] = (IF \E b \in leaves : c \in CoordsOf(b) THEN 1 ELSE 0)
    /\ (MedianCutDone /\ n_colors = 1) =>
          HoldsMeanOf(result[1], Flatten(image, shape))

\* The channels whose range over img_arr is the largest.
WidestChannels(img_arr) ==
    {k \in Channels : \A j \in Channels : ColorRange(img_arr, j) <= ColorRange(img_arr, k)}

\* C12: a split sorts by a channel of largest range, and among the channels
\* of largest range by the lowest-numbered one; when all three ranges are 0
\* that is channel 0.
C12_FirstWidestChannel ==
    lastSplit # None =>
        LET sp == lastSplit[1]
        IN /\ sp.channel \in WidestChannels(sp.img_arr)
           /\ \A k \in WidestChannels(sp.img_arr) : sp.channel <= k
           /\ (\A k \in Channels : ColorRange(sp.img_arr, k) = 0) => sp.channel = 0

\* A split of a bucket whose three ranges are equal and not 0 has sorted by
\* channel 0.
C12_Witness ==
    /\ lastSplit # None
    /\ WidestChannels(lastSplit[1].img_arr) = Channels
    /\ ColorRange(lastSplit[1].img_arr, 0) > 0
    /\ lastSplit[1].channel = 0
    /\ lastSplit[1].sorted # lastSplit[1].img_arr

\* C13: a split of n sorted records cuts at floor(n/2): the first sub-bucket
\* is the records at (0-based) indices [0, floor(n/2)) and the second those at
\* [floor(n/2), n), in sorted order; for odd n the second is one longer than
\* the first, for even n they are equally long, and for n = 1 the first is
\* empty and the second holds the one record.
C13_SplitAtFloorHalf ==
    lastSplit # None =>
        LET sp == lastSplit[1]
            n == Len(sp.sorted)
            m == sp.median_index
        IN /\ n = Len(sp.img_arr)
           /\ \A p, q \in 1..n :
                p < q => sp.sorted[p][sp.channel + 1] <= sp.sorted[q][sp.channel + 1]
           /\ 2 * m <= n /\ n < 2 * m + 2
           /\ sp.first = [p \in 1..m |-> sp.sorted[p]]
           /\ sp.second = [p \in 1..(n - m) |-> sp.sorted[m + p]]
           /\ n % 2 = 1 => Len(sp.second) = Len(sp.first) + 1
           /\ n % 2 = 0 => Len(sp.second) = Len(sp.first)
           /\ n = 1 => sp.first = <<>> /\ sp.second = <<sp.sorted[1]>>

\* A split of three records of different values on the channel sorted by,
\* whose sub-buckets are the pending calls: one record, then two.
C13_Witness ==
    /\ lastSplit # None
    /\ Len(lastSplit[1].sorted) = 3
    /\ lastSplit[1].sorted # lastSplit[1].img_arr
    /\ Len(lastSplit[1].first) = 1
    /\ Len(lastSplit[1].second) = 2
    /\ Len(stack) = 2
    /\ stack[1].img_arr = lastSplit[1].first
    /\ stack[2].img_arr = lastSplit[1].second

\* Every pending call of _split_into_buckets is nested level - 1 calls below
\* the first one and has had depth decreased by one per nesting.
NestingWithinDepth ==
    \A i \in 1..Len(stack) :
        /\ stack[i].level >= 1
        /\ stack[i].depth >= 0
        /\ stack[i].depth = depth0 - (stack[i].level - 1)
        /\ stack[i].level - 1 <= depth0

\* Only a non-empty bucket at a depth above 0 makes recursive calls.
RecursesOnlyAboveZero ==
    lastSplit # None => lastSplit[1].depth > 0 /\ Len(lastSplit[1].img_arr) > 0

\* C14: every median-cut quantization that has been entered ends (it returns,
\* or it raises); a call of _split_into_buckets is never nested more than
\* d = floor(log2(n_colors)) calls below the first one, its depth being d less
\* one per nesting; and no call at depth 0 or on an empty bucket recurses.
C14_TerminatesWithinDepth ==
    /\ [](NestingWithinDepth /\ RecursesOnlyAboveZero)
    /\ (pc = "running") ~> (pc = "done" \/ pc = "raised")

\* A completed quantization at depth 2 of three pixels: three splits, the last
\* at depth 1, and three leaves written at nesting 2.
C14_Witness ==
    /\ MedianCutDone
    /\ depth0 = 2
    /\ n_colors = 4
    /\ nsplits = 3
    /\ lastSplit[1].depth = 1
    /\ Cardinality(leaves) = 3
    /\ stack = <<>>

====
